---- MODULE Spec2Model ----
(***************************************************************************)
(* Model of view_database.py, the console viewer of the Health Assistant   *)
(* store: five report functions (view_users, view_appointments,            *)
(* view_stats, view_recent_activity, search_user), the menu loop           *)
(* interactive_menu, main with its exception handlers, and the module      *)
(* level code that runs when the file is executed as a script.             *)
(*                                                                         *)
(* Text is modelled as sequences of one-character strings, so that         *)
(* str.strip, slicing and concatenation are computed. A value read from a  *)
(* column is a tagged record (NULL, integer or text), so that Python's     *)
(* `x or default` is computed from the truthiness of the value. Layout     *)
(* (blank lines, rulers, emoji) of a printed message is not modelled: a    *)
(* print is an event naming the message and carrying its data.             *)
(***************************************************************************)
EXTENDS Integers, Sequences, FiniteSets

VARIABLES
    store_kind,  \* what sqlite3 finds at DATABASE: "unopenable", "noschema", "ok"
    users,       \* rows of table users, in storage order
    appts,       \* rows of table appointments, in storage order
    tabulate,    \* what the global name `tabulate` is bound to
    pc,          \* position of the control flow
    caller,      \* who called the running report: "menu" or "lib" (an importer)
    action,      \* the report being run
    email,       \* the argument of search_user
    line,        \* the line input() returned at the menu prompt
    conns,       \* number of sqlite3 connections open
    nconn,       \* number of connections the last report call opened
    built,       \* rows / cells the last report call built
    out,         \* what the last step printed
    err,         \* exception that left the last call ("" when it returned)
    exit,        \* how main ended ("" while running)
    menuShown,   \* the menu has been displayed at least once
    reportRan    \* a report function has been entered at least once

vars == <<store_kind, users, appts, tabulate, pc, caller, action, email, line,
          conns, nconn, built, out, err, exit, menuShown, reportRan>>

----------------------------------------------------------------------------
\* Bounds of the model

MaxUsers == 2
MaxAppts == 2
MaxPad == 1
MaxConns == 2

\* Program constants

BioLimit == 30
RecentLimit == 5

\* datetime.now().strftime("%Y-%m-%d"); dates are numbered in the order of
\* their "YYYY-MM-DD" text
Today == 1

----------------------------------------------------------------------------
\* Values read from the store

NullV == [k |-> "null", n |-> 0, s |-> <<>>]
IntV(i) == [k |-> "int", n |-> i, s |-> <<>>]
StrV(t) == [k |-> "str", n |-> 0, s |-> t]
\* the text f"{t} ({i} appointments)" / f"{t} ({i} bookings)"
FmtV(t, i) == [k |-> "fmt", n |-> i, s |-> t]

\* Python truthiness of a column value: None, 0 and "" are falsy
Truthy(v) == \/ v.k = "int" /\ v.n # 0
             \/ v.k = "str" /\ v.s # <<>>

\* Python `v or d`
Or(v, d) == IF Truthy(v) THEN v ELSE d

\* The literals the code substitutes
NA == StrV(<<"N", "/", "A">>)
Unknown == StrV(<<"U", "n", "k", "n", "o", "w", "n">>)
NotSet == StrV(<<"N", "o", "t", " ", "s", "e", "t">>)
Ellipsis == <<".", ".", ".">>

\* str.strip() for the blank character
RECURSIVE LStrip(_)
LStrip(t) == IF t # <<>> /\ Head(t) = " " THEN LStrip(Tail(t)) ELSE t

RECURSIVE RStrip(_)
RStrip(t) == IF t # <<>> /\ t[Len(t)] = " "
             THEN RStrip(SubSeq(t, 1, Len(t) - 1)) ELSE t

\* lstrip() in place of strip()
StripLeftOnly(t) == LStrip(t)

Strip(t) == RStrip(LStrip(t))

----------------------------------------------------------------------------
\* Store contents the model starts from

Emails == {<<"a">>, <<"b">>, <<"a", "b">>}
Doctors == {StrV(<<"X">>), StrV(<<"Y">>)}
Dates == {Today, Today + 1}

\* a bio of n characters whose first and (BioLimit+1)-th characters differ
\* from the rest
BioText(n) == [i \in 1..n |-> IF i = 1 THEN "a" ELSE IF i > BioLimit THEN "z" ELSE "x"]

\* age and bio of a user row, drawn together: every age with some bio and
\* every bio with some age
Profiles == {<<NullV, NullV>>, <<IntV(0), StrV(<<>>)>>, <<IntV(30), StrV(BioText(1))>>,
             <<IntV(0), StrV(BioText(BioLimit))>>,
             <<NullV, StrV(BioText(BioLimit + 1))>>,
             <<IntV(30), StrV(BioText(BioLimit + 2))>>}

NameOf(e) == StrV(<<"U">> \o e)

\* users with any age and bio; id and created_at follow the storage order
User(i, e, a, b) ==
    [id |-> i, name |-> NameOf(e), email |-> StrV(e), age |-> a, bio |-> b,
     created_at |-> i]

Appt(i, e, d, dt) ==
    [id |-> i, user_email |-> StrV(e), doctor |-> d, date |-> dt,
     time |-> 1, booked_at |-> i]

SeqsUpTo(S, n) == UNION {[1..m -> S] : m \in 0..n}

Injective(f) == \A i, j \in DOMAIN f : f[i] = f[j] => i = j

\* user tables: emails are unique (the store's invariant)
PlainUsers ==
    {[i \in DOMAIN es |-> User(i, es[i], IntV(30), StrV(BioText(1)))] :
        es \in {f \in SeqsUpTo(Emails, MaxUsers) : Injective(f)}}

RichUsers ==
    UNION {{[i \in DOMAIN es |-> User(i, es[i], ab[i][1], ab[i][2])] :
               ab \in [DOMAIN es -> Profiles]} :
           es \in {f \in SeqsUpTo(Emails, MaxUsers) : Injective(f)}}

PlainAppts ==
    {[i \in DOMAIN es |-> Appt(i, es[i], StrV(<<"X">>), Today)] :
        es \in SeqsUpTo(Emails, MaxAppts)}

RichAppts ==
    {[i \in DOMAIN es |-> Appt(i, es[i][1], es[i][2], es[i][3])] :
        es \in SeqsUpTo({<<"a">>, <<"b">>} \X Doctors \X Dates, MaxAppts)}

OneLetterUsers == {p \in PlainUsers : \A i \in DOMAIN p : Len(p[i].email.s) = 1}

Stores ==
    {<<u, a>> : u \in PlainUsers, a \in PlainAppts}
    \cup {<<u, <<>>>> : u \in RichUsers}
    \cup {<<u, a>> : u \in OneLetterUsers, a \in RichAppts}

----------------------------------------------------------------------------
\* The queries

\* SQL equality: NULL equals nothing
SqlEq(x, y) == x.k # "null" /\ y.k # "null" /\ x = y

Min(a, b) == IF a <= b THEN a ELSE b

\* LIMIT n
Limit(s, n) == SubSeq(s, 1, Min(n, Len(s)))

\* ORDER BY: keys[i] is the pair of sort keys of row s[i], compared left to
\* right; rows with equal keys keep the order of the input
OrderBy(s, keys) ==
    LET before(i, j) == \/ keys[i][1] < keys[j][1]
                        \/ keys[i][1] = keys[j][1] /\ keys[i][2] < keys[j][2]
        rank(i) == 1 + Cardinality({j \in DOMAIN s :
                        before(j, i) \/ (~before(i, j) /\ j < i)})
    IN [p \in DOMAIN s |-> s[CHOOSE i \in DOMAIN s : rank(i) = p]]

RECURSIVE Concat(_)
Concat(ss) == IF ss = <<>> THEN <<>> ELSE Head(ss) \o Concat(Tail(ss))

\* WHERE email LIKE ? || '%' in place of WHERE email = ?
UsersWithEmailPrefix(us, e) ==
    LET hit(u) == /\ u.email.k = "str" /\ e.k = "str" /\ Len(e.s) <= Len(u.email.s)
                  /\ SubSeq(u.email.s, 1, Len(e.s)) = e.s
    IN IF \E i \in DOMAIN us : hit(us[i])
       THEN <<us[CHOOSE i \in DOMAIN us : hit(us[i])]>> ELSE <<>>

\* the users rows whose email equals e, in storage order
RECURSIVE UsersWithEmail(_, _)
UsersWithEmail(us, e) ==
    IF us = <<>> THEN <<>>
    ELSE (IF SqlEq(Head(us).email, e) THEN <<Head(us)>> ELSE <<>>)
         \o UsersWithEmail(Tail(us), e)

\* the appointments rows whose user_email equals e, in storage order
RECURSIVE ApptsWithEmail(_, _)
ApptsWithEmail(as, e) ==
    IF as = <<>> THEN <<>>
    ELSE (IF SqlEq(Head(as).user_email, e) THEN <<Head(as)>> ELSE <<>>)
         \o ApptsWithEmail(Tail(as), e)

\* ORDER BY date, time
ByDateTime(as) == [i \in DOMAIN as |-> <<as[i].date, as[i].time>>]

\* ORDER BY booked_at DESC
ByBookedDesc(as) == [i \in DOMAIN as |-> <<0 - as[i].booked_at, 0>>]

\* the rows of users joined to appointment a; [a |-> a, name |-> u.name]
Joined(a) ==
    LET m == UsersWithEmail(users, a.user_email)
    IN [j \in DOMAIN m |-> [a |-> a, name |-> m[j].name]]

\* FROM appointments a LEFT JOIN users u ON a.user_email = u.email
\* ORDER BY a.date, a.time; a row is [a |-> appointment, name |-> u.name]
LeftJoin ==
    LET sorted == OrderBy(appts, ByDateTime(appts))
    IN Concat([i \in DOMAIN sorted |->
           IF Joined(sorted[i]) = <<>> THEN <<[a |-> sorted[i], name |-> NullV]>>
           ELSE Joined(sorted[i])])

\* FROM appointments a JOIN users u ON a.user_email = u.email
\* ORDER BY a.booked_at DESC LIMIT 5
InnerJoin ==
    LET sorted == OrderBy(appts, ByBookedDesc(appts))
    IN Limit(Concat([i \in DOMAIN sorted |-> Joined(sorted[i])]), RecentLimit)

\* ORDER BY created_at DESC
ByCreatedDesc(us) == [i \in DOMAIN us |-> <<0 - us[i].created_at, 0>>]

\* FROM users ORDER BY created_at DESC LIMIT 5
RecentUsers == Limit(OrderBy(users, ByCreatedDesc(users)), RecentLimit)

\* COUNT(a.id) of the group of user u in users u LEFT JOIN appointments a
ApptCount(u) == Len(ApptsWithEmail(appts, u.email))

\* the rows ORDER BY appt_count DESC LIMIT 1 may return: any user whose count
\* no other user's count exceeds (the order among equal counts is unspecified)
TopUsers == {i \in DOMAIN users :
                \A j \in DOMAIN users : ApptCount(users[j]) <= ApptCount(users[i])}

BookingCount(d) == Cardinality({i \in DOMAIN appts : appts[i].doctor = d})

\* the rows GROUP BY doctor ORDER BY count DESC LIMIT 1 may return
TopDoctors == {appts[i].doctor : i \in
                  {i \in DOMAIN appts : \A j \in DOMAIN appts :
                      BookingCount(appts[j].doctor) <= BookingCount(appts[i].doctor)}}

TodayCount == Cardinality({i \in DOMAIN appts : appts[i].date = Today})

----------------------------------------------------------------------------
\* The cells the reports build

AgeCell(u) == Or(u.age, NA)

\* >= in place of > in the length test
BioCellOffByOne(u) ==
    IF Len(Or(u.bio, StrV(<<>>)).s) >= BioLimit
    THEN StrV(SubSeq(u.bio.s, 1, BioLimit) \o Ellipsis)
    ELSE Or(u.bio, NA)

BioCell(u) ==
    IF Len(Or(u.bio, StrV(<<>>)).s) > BioLimit
    THEN StrV(SubSeq(u.bio.s, 1, BioLimit) \o Ellipsis)
    ELSE Or(u.bio, NA)

UserRow(u) == <<IntV(u.id), u.name, u.email, AgeCell(u), BioCell(u), IntV(u.created_at)>>

UserNameCell(r) == Or(r.name, Unknown)

ApptRow(r) == <<IntV(r.a.id), UserNameCell(r), r.a.user_email, r.a.doctor,
                IntV(r.a.date), IntV(r.a.time), IntV(r.a.booked_at)>>

\* the test most_active[2] > 0 left out
MostActiveCellAnyCount(i) ==
    IF i # 0 THEN FmtV(users[i].name.s, ApptCount(users[i])) ELSE NA

\* the value of "Most Active User" when the query returned the row of users[i]
\* (i = 0: no row)
MostActiveCell(i) ==
    IF i # 0 /\ ApptCount(users[i]) > 0
    THEN FmtV(users[i].name.s, ApptCount(users[i])) ELSE NA

\* the value of "Most Booked Doctor" when the query returned doctor d
PopularDoctorCell(d) == IF d # NullV THEN FmtV(d.s, BookingCount(d)) ELSE NA

StatsRows(i, d) ==
    << <<StrV(<<"users">>), IntV(Len(users))>>,
       <<StrV(<<"appointments">>), IntV(Len(appts))>>,
       <<StrV(<<"today">>), IntV(TodayCount)>>,
       <<StrV(<<"most active">>), MostActiveCell(i)>>,
       <<StrV(<<"doctor">>), PopularDoctorCell(d)>> >>

RecentUserRow(u) == <<u.name, u.email, IntV(u.created_at)>>

RecentApptRow(r) == <<r.name, r.a.doctor, IntV(r.a.date), IntV(r.a.time), IntV(r.a.booked_at)>>

SearchApptRow(a) == <<IntV(a.id), a.doctor, IntV(a.date), IntV(a.time)>>

UserDetails(u) == <<IntV(u.id), u.name, u.email, Or(u.age, NotSet), Or(u.bio, NotSet),
                    IntV(u.created_at)>>

UserRows(us) == [i \in DOMAIN us |-> UserRow(us[i])]

ApptRows(rs) == [i \in DOMAIN rs |-> ApptRow(rs[i])]

RecentUserRows(us) == [i \in DOMAIN us |-> RecentUserRow(us[i])]

RecentApptRows(rs) == [i \in DOMAIN rs |-> RecentApptRow(rs[i])]

SearchApptRows(as) == [i \in DOMAIN as |-> SearchApptRow(as[i])]

----------------------------------------------------------------------------
\* Printing

\* a print: the message t, the table rows or the data it carries
Ev(t, rows, arg) == [t |-> t, rows |-> rows, arg |-> arg]

Msg(t) == Ev(t, <<>>, NullV)

\* print(tabulate(rows, ...))
Table(rows) == Ev("table", rows, NullV)

NoRows == <<<<>>, <<>>>>

\* index of the first tabulate(...) call among the prints of a report, 0 if none
FirstTable(evs) ==
    IF \E i \in DOMAIN evs : evs[i].t = "table"
    THEN CHOOSE i \in DOMAIN evs : evs[i].t = "table" /\ \A j \in 1..(i - 1) : evs[j].t # "table"
    ELSE 0

\* calling the name `tabulate` raises TypeError when it is bound to the module
\* instead of the function
TableFails(evs) == tabulate = "module" /\ FirstTable(evs) # 0

\* what a report prints before it returns or raises
Printed(evs) == IF TableFails(evs) THEN SubSeq(evs, 1, FirstTable(evs) - 1) ELSE evs

\* the except clauses of main
HandlerPrint(exc) ==
    IF exc = "OperationalError" THEN Msg("db_not_found")
    ELSE IF exc = "KeyboardInterrupt" THEN Msg("goodbye")
    ELSE Ev("error", <<>>, StrV(<<exc>>))

\* main without the except KeyboardInterrupt clause
HandlerExitWithoutInterrupt(exc) ==
    IF exc = "OperationalError" THEN "db_not_found"
    ELSE IF exc = "KeyboardInterrupt" THEN "traceback"
    ELSE "error"

HandlerExit(exc) ==
    IF exc = "OperationalError" THEN "db_not_found"
    ELSE IF exc = "KeyboardInterrupt" THEN "interrupt"
    ELSE "error"

\* a DELETE FROM users among the statements
StoreFrameDeletes == UNCHANGED <<store_kind, appts>> /\ users' = <<>>

\* the tool issues SELECT statements only
StoreFrame == UNCHANGED <<store_kind, users, appts>>

\* a report call ends: it printed `printed`, built `cells`, opened `opened`
\* connections and closed `closed` of them, and returned (exc = "") or raised
\* exc, which main catches when the menu made the call
Ends(printed, cells, opened, closed, exc) ==
    /\ built' = cells
    /\ nconn' = opened
    /\ conns' = conns + opened - closed
    /\ err' = exc
    /\ reportRan' = TRUE
    /\ IF exc = "" THEN
           /\ out' = printed
           /\ exit' = exit
           /\ pc' = IF caller = "menu" THEN "pause" ELSE "idle"
       ELSE IF caller = "menu" THEN
           /\ out' = Append(printed, HandlerPrint(exc))
           /\ exit' = HandlerExit(exc)
           /\ pc' = "done"
       ELSE
           /\ out' = printed
           /\ exit' = exit
           /\ pc' = "idle"
    /\ UNCHANGED <<tabulate, caller, action, email, line, menuShown>>
    /\ StoreFrame

\* a report that returns without conn.close()
RunsWithoutClose(evs, cells) ==
    IF TableFails(evs) THEN Ends(Printed(evs), cells, 1, 0, "TypeError")
    ELSE Ends(Printed(evs), cells, 1, 0, "")

\* the body of a report on a store with the tables: it opens a connection,
\* prints evs up to a failing tabulate call, and closes the connection when
\* it gets to the end
Runs(evs, cells) ==
    IF TableFails(evs) THEN Ends(Printed(evs), cells, 1, 0, "TypeError")
    ELSE Ends(Printed(evs), cells, 1, 1, "")

\* sqlite3.connect raises OperationalError when the file cannot be opened;
\* it creates an empty file when there is none, and then, as on any file
\* without the tables, the first execute raises OperationalError
Report(evs, cells) ==
    IF store_kind = "unopenable" THEN Ends(<<>>, NoRows, 0, 0, "OperationalError")
    ELSE IF store_kind = "noschema" THEN Ends(<<>>, NoRows, 1, 0, "OperationalError")
    ELSE Runs(evs, cells)

----------------------------------------------------------------------------
\* The report functions

view_users ==
    /\ pc = "report" /\ action = "users"
    /\ LET rows == UserRows(users)
       IN IF users # <<>>
          THEN Report(<<Table(rows), Ev("total", <<>>, IntV(Len(users)))>>, <<rows, <<>>>>)
          ELSE Report(<<Msg("no_users")>>, NoRows)

view_appointments ==
    /\ pc = "report" /\ action = "appointments"
    /\ LET appointments == LeftJoin
           rows == ApptRows(appointments)
       IN IF appointments # <<>>
          THEN Report(<<Table(rows), Ev("total", <<>>, IntV(Len(appointments)))>>,
                      <<rows, <<>>>>)
          ELSE Report(<<Msg("no_appointments")>>, NoRows)

view_stats ==
    /\ pc = "report" /\ action = "stats"
    /\ \E i \in (IF users = <<>> THEN {0} ELSE TopUsers),
          d \in (IF appts = <<>> THEN {NullV} ELSE TopDoctors) :
          Report(<<Table(StatsRows(i, d))>>, <<StatsRows(i, d), <<>>>>)

view_recent_activity ==
    /\ pc = "report" /\ action = "recent"
    /\ LET recent_users == RecentUserRows(RecentUsers)
           recent_appts == RecentApptRows(InnerJoin)
       IN Report(<<Msg("recent_signups"),
                   IF recent_users # <<>> THEN Table(recent_users) ELSE Msg("no_users_yet"),
                   Msg("recent_appointments"),
                   IF recent_appts # <<>> THEN Table(recent_appts)
                   ELSE Msg("no_appointments_yet")>>,
                 <<recent_users, recent_appts>>)

search_user ==
    /\ pc = "report" /\ action = "search"
    /\ LET found == UsersWithEmail(users, StrV(email))
           matching == ApptsWithEmail(appts, StrV(email))
           appointments == OrderBy(matching, ByDateTime(matching))
           rows == SearchApptRows(appointments)
       IN IF found # <<>>
          THEN Report(<<Ev("user_details", <<UserDetails(found[1])>>, NullV),
                        Ev("appointments_heading", <<>>, IntV(Len(appointments))),
                        IF appointments # <<>> THEN Table(rows)
                        ELSE Msg("no_appointments_of_user")>>,
                      <<<<UserDetails(found[1])>>, rows>>)
          ELSE Report(<<Ev("not_found", <<>>, StrV(email))>>, NoRows)

----------------------------------------------------------------------------
\* Console input

Pad(n) == [i \in 1..n |-> " "]

Padded(bodies) == {Pad(i) \o b \o Pad(j) : i \in 0..MaxPad, j \in 0..MaxPad, b \in bodies}

\* lines typed at the menu prompt
ChoiceLines ==
    Padded({<<>>, <<"1">>, <<"2">>, <<"3">>, <<"4">>, <<"5">>, <<"6">>, <<"7">>,
            <<"1", "2">>, <<"6", " ", "6">>})

\* lines typed at the email prompt
EmailLines == Padded(Emails \cup {<<>>})

Reports == {"users", "appointments", "stats", "recent", "search"}

----------------------------------------------------------------------------
\* Module level code, main and the menu loop

Init ==
    /\ \/ /\ store_kind = "ok"
          /\ \E st \in Stores : users = st[1] /\ appts = st[2]
       \/ /\ store_kind \in {"unopenable", "noschema"}
          /\ users = <<>>
          /\ appts = <<>>
    /\ tabulate = "function"
    /\ pc = "loaded"
    /\ caller = "none"
    /\ action = "none"
    /\ email = <<>>
    /\ line = <<>>
    /\ conns = 0
    /\ nconn = 0
    /\ built = NoRows
    /\ out = <<>>
    /\ err = ""
    /\ exit = ""
    /\ menuShown = FALSE
    /\ reportRan = FALSE

\* the file is run as a script: `import tabulate` binds the global name
\* tabulate, which held the function, to the module; then main() is called
ScriptEntry ==
    /\ pc = "loaded"
    /\ tabulate' = "module"
    /\ pc' = "main"
    /\ caller' = "menu"
    /\ UNCHANGED <<action, email, line, conns, nconn, built, out, err, exit,
                   menuShown, reportRan>>
    /\ StoreFrame

\* the file is imported and the importer calls main()
ImportMain ==
    /\ pc = "loaded"
    /\ pc' = "main"
    /\ caller' = "menu"
    /\ UNCHANGED <<tabulate, action, email, line, conns, nconn, built, out, err,
                   exit, menuShown, reportRan>>
    /\ StoreFrame

\* the file is imported and the importer calls a report function
ImportCall(f, e) ==
    /\ pc \in {"loaded", "idle"}
    /\ conns < MaxConns
    /\ pc' = "report"
    /\ caller' = "lib"
    /\ action' = f
    /\ email' = IF f = "search" THEN e ELSE <<>>
    /\ out' = <<>>
    /\ built' = NoRows
    /\ nconn' = 0
    /\ err' = ""
    /\ UNCHANGED <<tabulate, line, conns, exit, menuShown, reportRan>>
    /\ StoreFrame

\* main raised exc before or between reports: the except clause prints
Caught(exc) ==
    /\ err' = exc
    /\ out' = <<HandlerPrint(exc)>>
    /\ exit' = HandlerExit(exc)
    /\ pc' = "done"

\* main up to the first display of the menu
Start ==
    /\ pc = "main"
    /\ IF store_kind = "unopenable"
       THEN /\ Caught("OperationalError")
            /\ UNCHANGED menuShown
       ELSE /\ pc' = "menu"
            /\ out' = <<Msg("menu")>>
            /\ menuShown' = TRUE
            /\ UNCHANGED <<err, exit>>
    /\ UNCHANGED <<tabulate, caller, action, email, line, conns, nconn, built, reportRan>>
    /\ StoreFrame

\* input() at the menu prompt returns
ReadChoice(l) ==
    /\ pc = "menu"
    /\ line' = l
    /\ pc' = "dispatch"
    /\ out' = <<>>
    /\ UNCHANGED <<tabulate, caller, action, email, conns, nconn, built, err, exit,
                   menuShown, reportRan>>
    /\ StoreFrame

ReportOf(choice) ==
    IF choice = <<"1">> THEN "users"
    ELSE IF choice = <<"2">> THEN "appointments"
    ELSE IF choice = <<"3">> THEN "stats"
    ELSE IF choice = <<"4">> THEN "recent"
    ELSE "none"

\* the if/elif chain of the loop body
Dispatch ==
    /\ pc = "dispatch"
    /\ LET choice == Strip(line)
       IN IF ReportOf(choice) # "none" THEN
              /\ out' = <<Msg("section")>>
              /\ action' = ReportOf(choice)
              /\ pc' = "report"
              /\ UNCHANGED exit
          ELSE IF choice = <<"5">> THEN
              /\ out' = <<>>
              /\ pc' = "email"
              /\ UNCHANGED <<action, exit>>
          ELSE IF choice = <<"6">> THEN
              /\ out' = <<Msg("goodbye")>>
              /\ pc' = "done"
              /\ exit' = "exit"
              /\ UNCHANGED action
          ELSE
              /\ out' = <<Msg("invalid")>>
              /\ pc' = "pause"
              /\ UNCHANGED <<action, exit>>
    /\ line' = <<>>
    /\ UNCHANGED <<tabulate, caller, email, conns, nconn, built, err, menuShown, reportRan>>
    /\ StoreFrame

\* input() at the email prompt returns and search_user is called
ReadEmail(l) ==
    /\ pc = "email"
    /\ email' = Strip(l)
    /\ action' = "search"
    /\ pc' = "report"
    /\ UNCHANGED <<tabulate, caller, line, conns, nconn, built, out, err, exit,
                   menuShown, reportRan>>
    /\ StoreFrame

\* input() at "Press Enter to continue" returns and the menu is printed
\* again; what the finished iteration left behind is dead from here on
Pause ==
    /\ pc = "pause"
    /\ pc' = "menu"
    /\ out' = <<Msg("menu")>>
    /\ menuShown' = TRUE
    /\ action' = "none"
    /\ email' = <<>>
    /\ built' = NoRows
    /\ nconn' = 0
    /\ UNCHANGED <<tabulate, caller, line, conns, err, exit, reportRan>>
    /\ StoreFrame

\* KeyboardInterrupt is raised inside main's try block: at a prompt, or in
\* the startup check or a report, where a connection may be open by then
Interrupt ==
    /\ pc \in {"main", "menu", "dispatch", "email", "report", "pause"}
    /\ caller = "menu"
    /\ Caught("KeyboardInterrupt")
    /\ conns' \in (IF pc \in {"main", "report"} /\ store_kind # "unopenable"
                   THEN {conns, conns + 1} ELSE {conns})
    /\ reportRan' = (reportRan \/ pc = "report")
    /\ UNCHANGED <<tabulate, caller, action, email, line, nconn, built, menuShown>>
    /\ StoreFrame

\* input() raises EOFError when the input is exhausted
EndOfInput ==
    /\ pc \in {"menu", "email", "pause"}
    /\ Caught("EOFError")
    /\ UNCHANGED <<tabulate, caller, action, email, line, conns, nconn, built,
                   menuShown, reportRan>>
    /\ StoreFrame

Next ==
    \/ ScriptEntry
    \/ ImportMain
    \/ \E f \in Reports, e \in Emails \cup {<<>>} : ImportCall(f, e)
    \/ Start
    \/ \E l \in ChoiceLines : ReadChoice(l)
    \/ Dispatch
    \/ \E l \in EmailLines : ReadEmail(l)
    \/ Pause
    \/ Interrupt
    \/ EndOfInput
    \/ view_users
    \/ view_appointments
    \/ view_stats
    \/ view_recent_activity
    \/ search_user

Spec == Init /\ [][Next]_vars

----------------------------------------------------------------------------
\* Vocabulary of the properties

\* the line is the character d with blanks around it only
IsChoice(l, d) ==
    \E i \in DOMAIN l : l[i] = d /\ \A j \in DOMAIN l \ {i} : l[j] = " "

\* report f has just ended, by returning or by raising out of its body, on a
\* store that has the tables
Finished(f) ==
    /\ store_kind = "ok"
    /\ action = f
    /\ pc \in {"pause", "idle"} \/ (pc = "done" /\ err = "TypeError")

\* the appointment refers to no user row
Orphan(a) == \A i \in DOMAIN users : users[i].email # a.user_email

\* number of appointments whose user_email is the email of users[i]
CountOf(i) == Cardinality({k \in DOMAIN appts : appts[k].user_email = users[i].email})

\* the rows of the tables printed by the last step
TablesOut == {out[k].rows : k \in {k \in DOMAIN out : out[k].t = "table"}}

Printed1(t) == \E k \in DOMAIN out : out[k].t = t

----------------------------------------------------------------------------
\* C1: at the menu prompt the stripped input line selects the branch: "1".."4"
\* call the four reports, "5" asks for an email and then calls search_user,
\* "6" prints the goodbye message and leaves the loop without a report, any
\* other line prints the invalid-choice notice, runs no report and leads
\* through the pause back to the menu; the loop is left normally on "6" only.
C1_MenuDispatch ==
    [][/\ (pc = "dispatch" /\ err' # "KeyboardInterrupt") =>
            /\ IsChoice(line, "1") => (pc' = "report" /\ action' = "users")
            /\ IsChoice(line, "2") => (pc' = "report" /\ action' = "appointments")
            /\ IsChoice(line, "3") => (pc' = "report" /\ action' = "stats")
            /\ IsChoice(line, "4") => (pc' = "report" /\ action' = "recent")
            /\ IsChoice(line, "5") => (pc' = "email" /\ reportRan' = reportRan)
            /\ IsChoice(line, "6") =>
                    /\ pc' = "done" /\ exit' = "exit"
                    /\ out' = <<Msg("goodbye")>>
                    /\ reportRan' = reportRan
            /\ (\A d \in {"1", "2", "3", "4", "5", "6"} : ~IsChoice(line, d)) =>
                    /\ pc' = "pause" /\ exit' = ""
                    /\ out' = <<Msg("invalid")>>
                    /\ action' = "none" /\ reportRan' = reportRan
       /\ (pc = "email" /\ pc' # "done") => (pc' = "report" /\ action' = "search")
       /\ (pc = "pause" /\ pc' # "done") => (pc' = "menu" /\ out' = <<Msg("menu")>>)
       /\ (exit = "" /\ exit' = "exit") => (pc = "dispatch" /\ IsChoice(line, "6"))
      ]_vars

\* an invalid choice, entered with blanks around it, has been answered
C1_Witness ==
    /\ pc = "pause" /\ out = <<Msg("invalid")>> /\ reportRan /\ menuShown

\* C2: whenever the "database not found" message has ended the program, the
\* menu was never displayed and no report ran.
C2_NotFoundOnlyAtStartup ==
    exit = "db_not_found" => (~menuShown /\ ~reportRan)

\* C3: an interrupt at the menu prompt, at the email prompt, at the pause or
\* in a report ends the program with the goodbye message, the message choice
\* 6 prints, and the exception is caught.
C3_InterruptGoodbye ==
    [][/\ (pc \in {"menu", "email", "pause", "report"} /\ caller = "menu"
           /\ err' = "KeyboardInterrupt") =>
            (pc' = "done" /\ exit' = "interrupt" /\ out' = <<Msg("goodbye")>>)
       /\ exit' = "exit" => out' = <<Msg("goodbye")>>
      ]_vars

\* a report was interrupted after it had opened its connection
C3_Witness ==
    /\ err = "KeyboardInterrupt" /\ action \in Reports /\ conns = 1
    /\ exit = "interrupt"

\* C4: no step of the program changes the user rows or the appointment rows.
C4_ReadOnly == [][users' = users /\ appts' = appts]_vars

\* a search has returned to the loop on a store with rows
C4_Witness ==
    /\ Finished("search") /\ pc = "pause" /\ users # <<>> /\ appts # <<>>

\* C5: at the menu prompt, at the email prompt and at the pause no connection
\* is open, and the report that has just returned opened exactly one.
C5_ConnectionsClosed ==
    /\ (caller = "menu" /\ pc \in {"menu", "dispatch", "email", "pause"}) => conns = 0
    /\ (caller = "menu" /\ pc = "pause" /\ action \in Reports) => nconn = 1

\* a report that printed a table has returned to the loop
C5_Witness ==
    /\ caller = "menu" /\ pc = "pause" /\ action \in Reports
    /\ TablesOut # {} /\ conns = 0

\* C6: when List Appointments has ended, every appointment that refers to no
\* user is in the printed table with the user name "Unknown"; when Recent
\* Activity has ended, no row of a printed appointment table comes from such
\* an appointment, and on the store of one user "a" and one appointment for
\* "b" the empty-appointments placeholder has been printed.
C6_OrphanAppointments ==
    /\ Finished("appointments") =>
          \A i \in DOMAIN appts : Orphan(appts[i]) =>
              \E rows \in TablesOut : \E r \in DOMAIN rows :
                  /\ rows[r][1] = IntV(appts[i].id)
                  /\ rows[r][2] = Unknown
    /\ Finished("recent") =>
          /\ \A k \in DOMAIN out :
                (out[k].t = "table" /\ k > 1 /\ out[k - 1].t = "recent_appointments") =>
                    \A r \in DOMAIN out[k].rows : \E i \in DOMAIN appts :
                        /\ ~Orphan(appts[i])
                        /\ out[k].rows[r][5] = IntV(appts[i].booked_at)
          /\ (Len(users) = 1 /\ Len(appts) = 1 /\ Orphan(appts[1])) =>
                Printed1("no_appointments_yet")

\* the same, for the calls in which the name tabulate is bound to the function
C6_WhenTabulateIsFunction == tabulate = "function" => C6_OrphanAppointments

BioOut(i) == built[1][i][5]

Truncated(t) == [j \in 1..(BioLimit + 3) |-> IF j <= BioLimit THEN t[j] ELSE "."]

C9_SearchMiss ==
    [][/\ (/\ pc = "report" /\ action = "search" /\ caller = "menu"
           /\ store_kind = "ok"
           /\ \A i \in DOMAIN users : users[i].email # StrV(email)
           /\ err' # "KeyboardInterrupt") =>
            /\ out' = <<Ev("not_found", <<>>, StrV(email))>>
            /\ pc' = "pause" /\ exit' = "" /\ err' = ""
       /\ (pc = "pause" /\ pc' # "done") => (pc' = "menu" /\ out' = <<Msg("menu")>>)
      ]_vars

\* a search missed although an appointment carries the searched email, and
\* another user's email starts with it
C9_Witness ==
    /\ pc = "pause" /\ action = "search" /\ caller = "menu"
    /\ Printed1("not_found")
    /\ \E k \in DOMAIN appts : appts[k].user_email = StrV(email)
    /\ \E i \in DOMAIN users : Len(users[i].email.s) > Len(email) /\ email # <<>>
                               /\ SubSeq(users[i].email.s, 1, Len(email)) = email

\* C10: in the rows of List Users the Age cell is "N/A" exactly for the users
\* without a recorded age, and any recorded age, 0 included, is in the cell.
C10_AgeCell ==
    (Finished("users") /\ users # <<>>) =>
        \A i \in DOMAIN users :
            /\ (built[1][i][4] = NA) <=> (users[i].age = NullV)
            /\ users[i].age # NullV => built[1][i][4] = users[i].age

====
